---- MODULE Spec2Model ----
(***************************************************************************)
(* One render() invocation of the subtitle renderers of                    *)
(* ComfyUI-Whisper-Boyo: BaseRenderer.validate_inputs, PillowRenderer      *)
(* (streaming frame loop, audio merge) and FFmpegRenderer (one external    *)
(* filter/encode pass).  A second specification, CallSpec, calls the      *)
(* animation, layout and filtergraph functions directly on bounded sets of *)
(* arguments.                                                              *)
(*                                                                         *)
(* Times (caption start/end, animation duration, frame time, alpha) are    *)
(* Python floats in the source.  They are modelled as exact rationals      *)
(* <<numerator, denominator>> in lowest terms, so frame_idx / fps is the   *)
(* quotient the code computes and not an integer approximation of it.      *)
(***************************************************************************)
EXTENDS Integers, Sequences, FiniteSets, TLC

VARIABLES
    renderer,      \* "pillow" | "ffmpeg": the class whose render() runs
    video_exists,  \* os.path.exists(video_path)
    alignment,     \* sequence of caption units [start, end, value]
    style_config,  \* the style dict; present = FALSE models None / {}
    fps,           \* frames per second passed to render()
    nframes,       \* number of frames the source yields to cap.read()
    output_path,   \* requested output path
    pc,            \* position inside render()
    cap,           \* cv2.VideoCapture handle: "none" | "open" | "released"
    out,           \* cv2.VideoWriter handle:  "none" | "open" | "released"
    temp,          \* temporary silent video:  "none" | "exists" | "deleted"
    cap_pos,       \* decoder position: index of the next frame cap.read() yields
    frame,         \* the decoded frame held by the loop (its index), or NoFrame
    frame_idx,     \* the loop counter of render()
    written,       \* frames handed to out.write(), in order
    tool_calls,    \* number of external processes subprocess.run has started
    proc,          \* the last external process that exited: [rc, stderr], or NoProc
    output_file,   \* what lies at output_path: "none" | "muxed" | "silent_copy" | "encoded"
    result,        \* the dict render() returned, or NoResult
    error,         \* the exception render() raised, or NoError
    log,           \* what render() has printed, in order
    call,          \* a direct call of one animation/layout/filter function, or NoCall
    ret            \* what that call returned, or NoRet

vars == <<renderer, video_exists, alignment, style_config, fps, nframes,
          output_path, pc, cap, out, temp, cap_pos, frame, frame_idx, written,
          tool_calls, proc, output_file, result, error, log, call, ret>>

inputs == <<renderer, video_exists, alignment, style_config, fps, nframes,
            output_path>>

-----------------------------------------------------------------------------
(* Bounds of the model *)

\* longest alignment sequence of the general inputs
MaxLen == 2
\* most frames a source of the general inputs yields
MaxFrames == 5

-----------------------------------------------------------------------------
(* Exact rational arithmetic for the float expressions of the source *)

RECURSIVE GCD(_, _)
GCD(a, b) == IF b = 0 THEN a ELSE GCD(b, a % b)

Abs(n) == IF n < 0 THEN -n ELSE n

\* n/d in lowest terms, d > 0
Rat(n, d) == LET g == GCD(Abs(n), d) IN <<n \div g, d \div g>>

RLt(a, b) == a[1] * b[2] < b[1] * a[2]
RLe(a, b) == a[1] * b[2] <= b[1] * a[2]
RSub(a, b) == Rat(a[1] * b[2] - b[1] * a[2], a[2] * b[2])
RAdd(a, b) == Rat(a[1] * b[2] + b[1] * a[2], a[2] * b[2])
\* a / b for b > 0
RDiv(a, b) == Rat(a[1] * b[2], a[2] * b[1])

Zero == Rat(0, 1)
One == Rat(1, 1)

-----------------------------------------------------------------------------
(* Inputs *)

Unit(s, e) == [start |-> s, end |-> e, value |-> "Hello World"]

\* caption times of the general inputs: zero-duration, inverted, overlapping
\* and unsorted units all occur
Starts == {Rat(0, 1), Rat(1, 2)}
Ends == {Rat(0, 1), Rat(1, 2), Rat(2, 1)}
Units == {Unit(s, e) : s \in Starts, e \in Ends}

SeqsUpTo(S, n) == UNION {[1..k -> S] : k \in 0..n}

AnimationStyles == {"none", "fade", "slide_up", "slide_down", "zoom"}
Durations == {Rat(1, 2), Rat(1, 1)}

NoStyle == [present |-> FALSE, animation_style |-> "none",
            animation_duration |-> Rat(3, 10)]
Style(a, d) == [present |-> TRUE, animation_style |-> a, animation_duration |-> d]
Styles == {Style(a, d) : a \in AnimationStyles, d \in Durations}

\* test_renderers.py: TEST_ALIGNMENT[0], TEST_STYLE_CONFIG, fps=24.0
TestFps == 24
TestUnit == Unit(Rat(1, 2), Rat(2, 1))
TestDuration == Rat(3, 10)
\* frames of the source in the fps-24 scenario: frame 48 (t = 2.0) and one after
TestFrames == 50

\* fade scenario: caption 1.0..3.0, duration 0.3, sampled every 0.05 s
FadeUnit == Unit(Rat(1, 1), Rat(3, 1))
FadeScenario == [fps |-> 20, nframes |-> 61]

NoFrame == -1
NoProc == [rc |-> -1, stderr |-> ""]
NoResult == [status |-> "none"]
NoError == [type |-> "none", stage |-> "none", detail |-> ""]
NoCall == [fn |-> "none"]
NoRet == [returned |-> FALSE]

GeneralInit ==
    /\ renderer \in {"pillow", "ffmpeg"}
    /\ video_exists \in BOOLEAN
    /\ alignment \in SeqsUpTo(Units, MaxLen)
    /\ style_config \in Styles \cup {NoStyle}
    /\ fps \in {1, 2}
    /\ nframes \in 0..MaxFrames

TestInit ==
    /\ renderer = "pillow"
    /\ video_exists = TRUE
    /\ alignment = <<TestUnit>>
    /\ style_config \in {Style(a, TestDuration) : a \in AnimationStyles}
    /\ fps = TestFps
    /\ nframes = TestFrames

FadeInit ==
    /\ renderer = "pillow"
    /\ video_exists = TRUE
    /\ alignment = <<FadeUnit>>
    /\ style_config = Style("fade", TestDuration)
    /\ fps = FadeScenario.fps
    /\ nframes = FadeScenario.nframes

Init ==
    /\ GeneralInit \/ TestInit \/ FadeInit
    /\ output_path = "out.mp4"
    /\ pc = "start"
    /\ cap = "none"
    /\ out = "none"
    /\ temp = "none"
    /\ cap_pos = 0
    /\ frame = NoFrame
    /\ frame_idx = 0
    /\ written = <<>>
    /\ tool_calls = 0
    /\ proc = NoProc
    /\ output_file = "none"
    /\ result = NoResult
    /\ error = NoError
    /\ log = <<>>
    /\ call = NoCall
    /\ ret = NoRet

-----------------------------------------------------------------------------
(* BaseRenderer.validate_inputs *)

\* validate_inputs without the style check
validate_inputs_no_style(exists, align, style) ==
    IF ~exists THEN "FileNotFoundError"
    ELSE IF Len(align) = 0 THEN "ValueError: Alignment data is empty"
    ELSE "ok"

\* validate_inputs without the empty-alignment check
validate_inputs_no_empty(exists, align, style) ==
    IF ~exists THEN "FileNotFoundError"
    ELSE IF ~style.present THEN "ValueError: Style configuration is required"
    ELSE "ok"

\* the exception validate_inputs raises, or "ok" when it returns True
validate_inputs(exists, align, style) ==
    IF ~exists THEN "FileNotFoundError"
    ELSE IF Len(align) = 0 THEN "ValueError: Alignment data is empty"
    ELSE IF ~style.present THEN "ValueError: Style configuration is required"
    ELSE "ok"

Raise(type, stage, detail) ==
    /\ pc' = "failed"
    /\ error' = [type |-> type, stage |-> stage, detail |-> detail]

\* render(), first statement, both renderers
Validate ==
    /\ pc = "start"
    /\ LET v == validate_inputs(video_exists, alignment, style_config) IN
         IF v = "ok"
         THEN pc' = "validated" /\ error' = error
         ELSE Raise(v, "validate", "")
    /\ UNCHANGED <<inputs, log, call, ret, cap, out, temp, cap_pos, frame, frame_idx, written,
                   tool_calls, proc, output_file, result>>

-----------------------------------------------------------------------------
(* Animation and layout functions of PillowRenderer *)

\* _get_active_subtitles without the lower bound: every unit not yet over
RECURSIVE get_active_no_start(_, _)
get_active_no_start(align, current_time) ==
    IF align = <<>> THEN <<>>
    ELSE LET rest == get_active_no_start(Tail(align), current_time)
         IN IF RLe(current_time, Head(align).end) THEN <<Head(align)>> \o rest ELSE rest

\* _get_active_subtitles with a half-open window, start <= current_time < end
RECURSIVE get_active_half_open(_, _)
get_active_half_open(align, current_time) ==
    IF align = <<>> THEN <<>>
    ELSE LET rest == get_active_half_open(Tail(align), current_time)
         IN IF RLe(Head(align).start, current_time) /\ RLt(current_time, Head(align).end)
            THEN <<Head(align)>> \o rest
            ELSE rest

\* _get_active_subtitles: the loop over alignment, appending each unit with
\* start <= current_time <= end
RECURSIVE _get_active_subtitles(_, _)
_get_active_subtitles(align, current_time) ==
    IF align = <<>> THEN <<>>
    ELSE LET subtitle == Head(align)
             rest == _get_active_subtitles(Tail(align), current_time)
         IN IF RLe(subtitle.start, current_time) /\ RLe(current_time, subtitle.end)
            THEN <<subtitle>> \o rest
            ELSE rest

\* _calculate_animation_progress: elapsed / duration while elapsed < duration, else 1.0
_calculate_animation_progress(subtitle, current_time, style) ==
    LET duration == style.animation_duration
        elapsed == RSub(current_time, subtitle.start)
    IN IF RLt(elapsed, duration) THEN RDiv(elapsed, duration) ELSE One

\* _calculate_alpha with a fade-in ramp that is not divided by the duration
calculate_alpha_no_divide(subtitle, current_time, style) ==
    IF style.animation_style # "fade" THEN One
    ELSE LET duration == style.animation_duration IN
         IF RLt(RSub(current_time, subtitle.start), duration)
         THEN RSub(current_time, subtitle.start)
         ELSE IF RLt(RSub(subtitle.end, current_time), duration)
         THEN RDiv(RSub(subtitle.end, current_time), duration)
         ELSE One

\* _calculate_alpha with the fade-out test before the fade-in test
calculate_alpha_out_first(subtitle, current_time, style) ==
    IF style.animation_style # "fade" THEN One
    ELSE LET duration == style.animation_duration IN
         IF RLt(RSub(subtitle.end, current_time), duration)
         THEN RDiv(RSub(subtitle.end, current_time), duration)
         ELSE IF RLt(RSub(current_time, subtitle.start), duration)
         THEN RDiv(RSub(current_time, subtitle.start), duration)
         ELSE One

\* _calculate_alpha: 1.0 unless fade; fade-in test first, then fade-out
_calculate_alpha(subtitle, current_time, style) ==
    IF style.animation_style # "fade" THEN One
    ELSE LET duration == style.animation_duration IN
         IF RLt(RSub(current_time, subtitle.start), duration)
         THEN RDiv(RSub(current_time, subtitle.start), duration)
         ELSE IF RLt(RSub(subtitle.end, current_time), duration)
         THEN RDiv(RSub(subtitle.end, current_time), duration)
         ELSE One

\* _draw_subtitles: one fill draw per subtitle handed in, in order
_draw_subtitles(subtitles, style, current_time) ==
    [i \in 1..Len(subtitles) |->
        [unit |-> subtitles[i],
         alpha |-> _calculate_alpha(subtitles[i], current_time, style)]]

\* current_time taken after the increment of frame_idx
CurrentTimeNext(idx, f) == Rat(idx + 1, f)

\* current_time = frame_idx / fps
CurrentTime(idx, f) == Rat(idx, f)

\* one iteration of the frame loop after a successful read: what out.write gets
ComposeFrame(fr, idx, f, align, style) ==
    LET current_time == CurrentTime(idx, f)
        active_subtitles == _get_active_subtitles(align, current_time)
    IN [src |-> fr,
        time |-> current_time,
        drawn |-> IF active_subtitles # <<>>
                  THEN _draw_subtitles(active_subtitles, style, current_time)
                  ELSE <<>>]

-----------------------------------------------------------------------------
(* PillowRenderer.render *)

\* the interval of the progress print: if frame_idx % 100 == 0
ProgressEvery == 100

\* cap = cv2.VideoCapture(video_path) and the property reads
OpenCapture ==
    /\ pc = "validated" /\ renderer = "pillow"
    /\ cap' = "open"
    /\ pc' = "cap_open"
    /\ UNCHANGED <<inputs, log, call, ret, out, temp, cap_pos, frame, frame_idx, written,
                   tool_calls, proc, output_file, result, error>>

\* font = ImageFont.truetype(...): raises OSError when the font cannot be opened
LoadFont ==
    /\ pc = "cap_open"
    /\ \E ok \in BOOLEAN :
         IF ok THEN pc' = "font_loaded" /\ error' = error
         ELSE Raise("OSError", "font", "cannot open resource")
    /\ UNCHANGED <<inputs, log, call, ret, cap, out, temp, cap_pos, frame, frame_idx, written,
                   tool_calls, proc, output_file, result>>

\* NamedTemporaryFile(delete=False), cv2.VideoWriter(temp_video_path, ...), frame_idx = 0
CreateWriter ==
    /\ pc = "font_loaded"
    /\ temp' = "exists"
    /\ out' = "open"
    /\ frame_idx' = 0
    /\ pc' = "loop"
    /\ log' = Append(log, "Processing frames...")
    /\ UNCHANGED <<inputs, call, ret, cap, cap_pos, frame, written, tool_calls, proc,
                   output_file, result, error>>

\* ret, frame = cap.read(); if not ret: break
ReadFrame ==
    /\ pc = "loop"
    /\ IF cap_pos < nframes
       THEN /\ frame' = cap_pos
            /\ cap_pos' = cap_pos + 1
            /\ pc' = "body"
       ELSE /\ pc' = "cleanup"
            /\ UNCHANGED <<frame, cap_pos>>
    /\ UNCHANGED <<inputs, log, call, ret, cap, out, temp, frame_idx, written, tool_calls, proc,
                   output_file, result, error>>

\* the loop body with the write left to a later pass: the frame stays held
ProcessFrameDeferWrite ==
    /\ pc = "body"
    /\ frame_idx' = frame_idx + 1
    /\ pc' = "loop"
    /\ UNCHANGED <<inputs, log, call, ret, cap, out, temp, cap_pos, frame, written,
                   tool_calls, proc, output_file, result, error>>

\* the loop body: composite, out.write(frame_bgr), frame_idx += 1
ProcessFrame ==
    /\ pc = "body"
    /\ written' = Append(written,
                         ComposeFrame(frame, frame_idx, fps, alignment, style_config))
    /\ frame_idx' = frame_idx + 1
    /\ frame' = NoFrame
    /\ pc' = "loop"
    /\ log' = IF frame_idx % ProgressEvery = 0
               THEN Append(log, "Progress") ELSE log
    /\ UNCHANGED <<inputs, call, ret, cap, out, temp, cap_pos, tool_calls, proc,
                   output_file, result, error>>

\* an exception raised inside the loop body (cv2 conversion, font re-load, draw)
FrameError ==
    /\ pc = "body"
    /\ Raise("Exception", "frame_loop", "")
    /\ UNCHANGED <<inputs, log, call, ret, cap, out, temp, cap_pos, frame, frame_idx, written,
                   tool_calls, proc, output_file, result>>

\* cap.release(); out.release()
Release ==
    /\ pc = "cleanup"
    /\ cap' = "released"
    /\ out' = "released"
    /\ pc' = "merge"
    /\ log' = log \o <<"Processed frames", "Merging audio...">>
    /\ UNCHANGED <<inputs, call, ret, temp, cap_pos, frame, frame_idx, written, tool_calls,
                   proc, output_file, result, error>>

\* subprocess.run(cmd, check=True, ...): CalledProcessError iff the exit code is not 0
CheckedRun(rc) == IF rc = 0 THEN "completed" ELSE "CalledProcessError"

\* what an external tool run can do: exit 0, exit non-zero with diagnostics,
\* or not start at all (executable missing: FileNotFoundError from subprocess.run)
ToolRuns == {[started |-> TRUE, rc |-> 0, stderr |-> ""],
             [started |-> TRUE, rc |-> 1, stderr |-> "Invalid data found"],
             [started |-> TRUE, rc |-> 1, stderr |-> "No such filter"],
             [started |-> FALSE, rc |-> -1, stderr |-> ""]}

\* _merge_audio: what it leaves behind for one tool run.  Only CalledProcessError
\* is caught; the fallback shutil.copy may itself raise.
_merge_audio(run, copy_ok) ==
    IF ~run.started THEN [raised |-> "FileNotFoundError", output |-> "none"]
    ELSE IF CheckedRun(run.rc) = "completed" THEN [raised |-> "none", output |-> "muxed"]
    ELSE IF copy_ok THEN [raised |-> "none", output |-> "silent_copy"]
    ELSE [raised |-> "OSError", output |-> "none"]

\* self._merge_audio(video_path, temp_video_path, output_path)
MergeAudio ==
    /\ pc = "merge"
    /\ \E run \in ToolRuns, copy_ok \in BOOLEAN :
         LET m == _merge_audio(run, copy_ok) IN
         /\ tool_calls' = IF run.started THEN tool_calls + 1 ELSE tool_calls
         /\ proc' = IF run.started THEN [rc |-> run.rc, stderr |-> run.stderr] ELSE proc
         /\ output_file' = m.output
         /\ log' = IF run.started /\ CheckedRun(run.rc) # "completed"
                   THEN Append(log, "Warning: Audio merge failed, output will have no audio")
                   ELSE log
         /\ IF m.raised = "none"
            THEN pc' = "unlink" /\ error' = error
            ELSE Raise(m.raised, "merge", "")
    /\ UNCHANGED <<inputs, call, ret, cap, out, temp, cap_pos, frame, frame_idx,
                   written, result>>

\* os.unlink(temp_video_path)
Unlink ==
    /\ pc = "unlink"
    /\ temp' = "deleted"
    /\ pc' = "return"
    /\ UNCHANGED <<inputs, log, call, ret, cap, out, cap_pos, frame, frame_idx, written, tool_calls,
                   proc, output_file, result, error>>

\* the result dict with the frame counter in the place of the caption count
PillowResultSwapped(path, align, idx) ==
    [status |-> "success", output_path |-> path, subtitle_count |-> idx,
     frames_processed |-> idx, renderer |-> "pillow"]

\* the dict PillowRenderer.render returns
PillowResult(path, align, idx) ==
    [status |-> "success", output_path |-> path, subtitle_count |-> Len(align),
     frames_processed |-> idx, renderer |-> "pillow"]

PillowReturn ==
    /\ pc = "return"
    /\ result' = PillowResult(output_path, alignment, frame_idx)
    /\ pc' = "done"
    /\ UNCHANGED <<inputs, log, call, ret, cap, out, temp, cap_pos, frame, frame_idx, written,
                   tool_calls, proc, output_file, error>>

-----------------------------------------------------------------------------
(* FFmpegRenderer.render *)

\* filters = self._build_filtergraph(...); cmd = self._build_ffmpeg_command(...)
BuildCommand ==
    /\ pc = "validated" /\ renderer = "ffmpeg"
    /\ pc' = "built"
    /\ UNCHANGED <<inputs, log, call, ret, cap, out, temp, cap_pos, frame, frame_idx, written,
                   tool_calls, proc, output_file, result, error>>

\* the dict FFmpegRenderer.render returns
FFmpegResult(path, align) ==
    [status |-> "success", output_path |-> path, subtitle_count |-> Len(align),
     renderer |-> "ffmpeg"]

\* the try/except with the diagnostic left out of the RuntimeError
FFmpegOutcomeNoStderr(run) ==
    IF ~run.started THEN [raised |-> "FileNotFoundError", detail |-> ""]
    ELSE IF run.rc = 0 THEN [raised |-> "none", detail |-> ""]
    ELSE [raised |-> "RuntimeError", detail |-> ""]

\* the try/except around subprocess.run: return the result, or re-raise
\* CalledProcessError as RuntimeError(f"FFmpeg processing failed: {e.stderr}")
FFmpegOutcome(run) ==
    IF ~run.started THEN [raised |-> "FileNotFoundError", detail |-> ""]
    ELSE IF CheckedRun(run.rc) = "completed" THEN [raised |-> "none", detail |-> ""]
    ELSE [raised |-> "RuntimeError", detail |-> run.stderr]

RunFFmpeg ==
    /\ pc = "built"
    /\ \E run \in ToolRuns :
         LET o == FFmpegOutcome(run) IN
         /\ tool_calls' = IF run.started THEN tool_calls + 1 ELSE tool_calls
         /\ proc' = IF run.started THEN [rc |-> run.rc, stderr |-> run.stderr] ELSE proc
         /\ IF o.raised = "none"
            THEN /\ result' = FFmpegResult(output_path, alignment)
                 /\ output_file' = "encoded"
                 /\ pc' = "done"
                 /\ error' = error
            ELSE /\ Raise(o.raised, "encode", o.detail)
                 /\ UNCHANGED <<result, output_file>>
    /\ UNCHANGED <<inputs, log, call, ret, cap, out, temp, cap_pos, frame, frame_idx, written>>

-----------------------------------------------------------------------------

Next ==
    \/ Validate
    \/ OpenCapture
    \/ LoadFont
    \/ CreateWriter
    \/ ReadFrame
    \/ ProcessFrame
    \/ FrameError
    \/ Release
    \/ MergeAudio
    \/ Unlink
    \/ PillowReturn
    \/ BuildCommand
    \/ RunFFmpeg

Spec == Init /\ [][Next]_vars

Terminated == pc \in {"done", "failed"}
-----------------------------------------------------------------------------
(* FFmpegRenderer._build_filtergraph.  A string is a sequence of tokens whose *)
(* concatenation is the string: every character of a caption text and of the  *)
(* font path is a token of its own, and so is every delimiter character       *)
(* (comma, colon, quote, backslash, parenthesis) of the literal parts.        *)

Digits == <<"0", "1", "2", "3", "4", "5", "6", "7", "8", "9">>

\* str(n) of a non-negative int
RECURSIVE NatStr(_)
NatStr(n) ==
    IF n < 10 THEN Digits[n + 1] ELSE NatStr(n \div 10) \o Digits[(n % 10) + 1]

\* str(n) of an int, as an f-string formats it
IntStr(n) == IF n < 0 THEN "-" \o NatStr(-n) ELSE NatStr(n)

\* str(x) of a float whose value is a whole or a half: 0.5, 2.0, -0.5
FloatStr(r) ==
    (IF r[1] < 0 THEN "-" ELSE "") \o NatStr(Abs(r[1]) \div r[2]) \o "."
        \o (IF r[2] = 1 THEN "0" ELSE "5")

\* text.replace(c, r) for a one-character c
RECURSIVE Replace(_, _, _)
Replace(text, c, r) ==
    IF text = <<>> THEN <<>>
    ELSE (IF Head(text) = c THEN r ELSE <<Head(text)>>) \o Replace(Tail(text), c, r)

\* sep.join(parts)
RECURSIVE Join(_, _)
Join(parts, sep) ==
    IF parts = <<>> THEN <<>>
    ELSE IF Len(parts) = 1 THEN parts[1]
    ELSE parts[1] \o <<sep>> \o Join(Tail(parts), sep)

\* _escape_text: colon, then single quote, then backslash, each replaced by
\* a backslash and itself
_escape_text(text) ==
    LET colons == Replace(text, ":", <<"\\", ":">>)
        quotes == Replace(colons, "'", <<"\\", "'">>)
    IN Replace(quotes, "\\", <<"\\", "\\">>)

\* FFmpegRenderer._calculate_position: (x, y) expressions for the filter engine
ffmpeg_calculate_position(style) ==
    CASE style.position_preset = "bottom_center" ->
            [x |-> <<"(", "w-text_w", ")", "/2">>,
             y |-> <<"h-" \o IntStr(style.y_position)>>]
      [] style.position_preset = "top_center" ->
            [x |-> <<"(", "w-text_w", ")", "/2">>,
             y |-> <<IntStr(style.y_position)>>]
      [] style.position_preset = "center" ->
            [x |-> <<"(", "w-text_w", ")", "/2">>,
             y |-> <<"(", "h-text_h", ")", "/2">>]
      [] OTHER ->
            [x |-> <<IntStr(style.x_position)>>,
             y |-> <<IntStr(style.y_position)>>]

\* _build_animation with a y expression in t for slide_up
build_animation_slide(start_time, end_time, style) ==
    IF style.animation_style = "slide_up"
    THEN <<"y=h-" \o IntStr(style.y_position) \o "+50*", "(", "1-t", ")">>
    ELSE <<>>

\* _build_animation: the alpha expression for fade, None (here <<>>) for
\* slide_up, slide_down, zoom and none
_build_animation(start_time, end_time, style) ==
    IF style.animation_style = "fade"
    THEN LET duration == style.animation_duration
             fade_in_end == RAdd(start_time, duration)
             fade_out_start == RSub(end_time, duration)
         IN <<"alpha=if", "(", "lt", "(", "t", ",", FloatStr(fade_in_end), ")", ",",
              "(", "t-" \o FloatStr(start_time), ")", "/" \o FloatStr(duration), ",",
              "if", "(", "gt", "(", "t", ",", FloatStr(fade_out_start), ")", ",",
              "(", FloatStr(end_time) \o "-t", ")", "/" \o FloatStr(duration), ",",
              "1", ")", ")">>
    ELSE <<>>

\* enable=between(t,{start_time},{end_time})
EnableBetween(start_time, end_time) ==
    <<"enable=between", "(", "t", ",", FloatStr(start_time), ",", FloatStr(end_time), ")">>

\* the body of the loop of _build_filtergraph: the parts of one drawtext
\* filter, joined with colons
DrawtextFilter(word, style) ==
    LET font_path == Replace(style.font_path, "\\", <<"/">>)
        text == _escape_text(word.value)
        pos == ffmpeg_calculate_position(style)
        animation_filter == _build_animation(word.start, word.end, style)
        filter_parts ==
            << <<"drawtext=fontfile=">> \o font_path,
               <<"text=">> \o text,
               <<"fontsize=" \o IntStr(style.font_size)>>,
               <<"fontcolor=" \o style.font_color>> >>
            \o (IF style.stroke_width > 0
                THEN << <<"borderw=" \o IntStr(style.stroke_width)>>,
                        <<"bordercolor=" \o style.stroke_color>> >>
                ELSE <<>>)
            \o (IF style.shadow
                THEN << <<"shadowx=2">>, <<"shadowy=2">>, <<"shadowcolor=black@0.5">> >>
                ELSE <<>>)
            \o << <<"x=">> \o pos.x, <<"y=">> \o pos.y >>
            \o (IF animation_filter # <<>> THEN <<animation_filter>> ELSE <<>>)
            \o <<EnableBetween(word.start, word.end)>>
    IN Join(filter_parts, ":")

\* _build_filtergraph: the drawtext filters of all units, joined with commas
_build_filtergraph(align, style) ==
    Join([i \in 1..Len(align) |-> DrawtextFilter(align[i], style)], ",")

-----------------------------------------------------------------------------
(* Position and zoom of the frame-by-frame implementations.  The measured     *)
(* text size (draw.textbbox) is an input of the position functions.           *)

\* the slide distance of slide_up / slide_down: int(50 * (1 - progress))
SlideDistance == 50
\* the smallest font size of zoom: max(10, scaled_size)
MinFontSize == 10

\* int(x): truncation toward zero
IntOf(r) == IF r[1] >= 0 THEN r[1] \div r[2] ELSE -((-r[1]) \div r[2])

\* int(50 * (1 - progress))
SlideOffset(progress) ==
    IntOf(Rat(SlideDistance * (progress[2] - progress[1]), progress[2]))

\* the base position of PillowRenderer._calculate_position and of
\* AddSubtitlesLiteNode._calculate_position (the same four branches)
BasePosition(text_width, text_height, style, frame_width, frame_height) ==
    CASE style.position_preset = "bottom_center" ->
            [x |-> (frame_width - text_width) \div 2,
             y |-> frame_height - style.y_position]
      [] style.position_preset = "top_center" ->
            [x |-> (frame_width - text_width) \div 2,
             y |-> style.y_position]
      [] style.position_preset = "center" ->
            [x |-> (frame_width - text_width) \div 2,
             y |-> (frame_height - text_height) \div 2]
      [] OTHER ->
            [x |-> style.x_position, y |-> style.y_position]

\* PillowRenderer._calculate_position with slide_down sliding the same way as
\* slide_up
pillow_position_same_way(text_width, text_height, style, frame_width, frame_height, progress) ==
    LET base == BasePosition(text_width, text_height, style, frame_width, frame_height)
    IN [x |-> base.x,
        y |-> IF style.animation_style \in {"slide_up", "slide_down"} /\ RLt(progress, One)
              THEN base.y + SlideOffset(progress)
              ELSE base.y]

\* PillowRenderer._calculate_position
pillow_calculate_position(text_width, text_height, style, frame_width, frame_height, progress) ==
    LET base == BasePosition(text_width, text_height, style, frame_width, frame_height)
        animation == style.animation_style
    IN [x |-> base.x,
        y |-> IF animation = "slide_up" /\ RLt(progress, One)
              THEN base.y + SlideOffset(progress)
              ELSE IF animation = "slide_down" /\ RLt(progress, One)
              THEN base.y - SlideOffset(progress)
              ELSE base.y]

\* AddSubtitlesLiteNode._calculate_position
lite_calculate_position(text_width, text_height, style, frame_width, frame_height, progress) ==
    LET base == BasePosition(text_width, text_height, style, frame_width, frame_height)
        animation == style.animation_style
    IN [x |-> base.x,
        y |-> IF RLt(progress, One)
              THEN IF animation = "slide_up" THEN base.y + SlideOffset(progress)
                   ELSE IF animation = "slide_down" THEN base.y - SlideOffset(progress)
                   ELSE base.y
              ELSE base.y]

\* AddSubtitlesBackendNode._calculate_position
backend_calculate_position(width, height, style) ==
    CASE style.position_preset = "bottom_center" ->
            [x |-> width \div 2, y |-> height - style.y_position]
      [] style.position_preset = "top_center" ->
            [x |-> width \div 2, y |-> style.y_position]
      [] style.position_preset = "center" ->
            [x |-> width \div 2, y |-> height \div 2]
      [] OTHER ->
            [x |-> style.x_position, y |-> style.y_position]

\* where _process_lite_mode of the backend node draws a caption: base_x only
\* for custom, the centred x otherwise, and base_y
backend_draw_position(text_width, style, frame_width, frame_height) ==
    LET base == backend_calculate_position(frame_width, frame_height, style)
    IN [x |-> IF style.position_preset = "custom"
              THEN base.x
              ELSE (frame_width - text_width) \div 2,
        y |-> base.y]

Max(a, b) == IF a >= b THEN a ELSE b

\* the zoom font size without the lower bound
pillow_font_size_no_floor(style, progress) ==
    IF style.animation_style = "zoom"
    THEN IntOf(Rat(style.font_size * progress[1], progress[2]))
    ELSE style.font_size

\* the size of current_font in PillowRenderer._draw_subtitles
pillow_font_size(style, progress) ==
    IF style.animation_style = "zoom"
    THEN LET scaled_size == IntOf(Rat(style.font_size * progress[1], progress[2]))
         IN Max(MinFontSize, scaled_size)
    ELSE style.font_size

-----------------------------------------------------------------------------
(* The draw calls of the rasterizing paths: what one caption makes           *)
(* draw.text receive, in order.  The size the text measures (draw.textbbox   *)
(* with the measuring font) is an input.                                      *)

\* the smallest scaled size the Lite node loads a font for: if scaled_size >= 10
LiteMinFontSize == 10

\* for offset_x in range(-width, width + 1): for offset_y in range(-width, width + 1)
Offsets(width) ==
    [k \in 1..((2 * width + 1) * (2 * width + 1)) |->
        [dx |-> ((k - 1) \div (2 * width + 1)) - width,
         dy |-> ((k - 1) % (2 * width + 1)) - width]]

\* if offset_x != 0 or offset_y != 0
NotOrigin(o) == o.dx # 0 \/ o.dy # 0

\* _apply_alpha with the alpha carried into the colour
apply_alpha_blend(color, alpha) ==
    IF alpha = One THEN color
    ELSE color \o "@" \o NatStr(alpha[1]) \o "/" \o NatStr(alpha[2])

\* PillowRenderer._apply_alpha: returns the colour unchanged
_apply_alpha(color, alpha) == color

\* one draw.text((x, y), text, fill=..., font=...) call
Draw(x, y, fill, size) == [x |-> x, y |-> y, fill |-> fill, font_size |-> size]

\* PillowRenderer._draw_text_stroke
pillow_draw_text_stroke(x, y, size, width, color, alpha) ==
    LET stroke_color == _apply_alpha(color, alpha)
        around == SelectSeq(Offsets(width), NotOrigin)
    IN [i \in 1..Len(around) |->
           Draw(x + around[i].dx, y + around[i].dy, stroke_color, size)]

\* the body of the loop of PillowRenderer._draw_subtitles for one caption:
\* progress, position (measured with the base font), current_font, alpha,
\* stroke, fill
pillow_draw_subtitle(subtitle, style, current_time, text, frame_width, frame_height) ==
    LET progress == _calculate_animation_progress(subtitle, current_time, style)
        pos == pillow_calculate_position(text.width, text.height, style,
                                         frame_width, frame_height, progress)
        size == pillow_font_size(style, progress)
        alpha == _calculate_alpha(subtitle, current_time, style)
        stroke == IF style.stroke_width > 0
                  THEN pillow_draw_text_stroke(pos.x, pos.y, size, style.stroke_width,
                                               style.stroke_color, alpha)
                  ELSE <<>>
        color == _apply_alpha(style.font_color, alpha)
    IN [progress |-> progress, alpha |-> alpha, x |-> pos.x, y |-> pos.y,
        font_size |-> size, measure_size |-> style.font_size,
        draws |-> Append(stroke, Draw(pos.x, pos.y, color, size))]

\* AddSubtitlesLiteNode._get_active_subtitles
RECURSIVE lite_get_active_subtitles(_, _)
lite_get_active_subtitles(align, current_time) ==
    IF align = <<>> THEN <<>>
    ELSE LET subtitle == Head(align)
             rest == lite_get_active_subtitles(Tail(align), current_time)
         IN IF RLe(subtitle.start, current_time) /\ RLe(current_time, subtitle.end)
            THEN <<subtitle>> \o rest
            ELSE rest

\* AddSubtitlesLiteNode._calculate_animation_progress
lite_calculate_animation_progress(subtitle, current_time, style) ==
    LET duration == style.animation_duration
        elapsed == RSub(current_time, subtitle.start)
    IN IF RLt(elapsed, duration) THEN RDiv(elapsed, duration) ELSE One

\* AddSubtitlesLiteNode._calculate_alpha
lite_calculate_alpha(subtitle, current_time, style) ==
    IF style.animation_style # "fade" THEN One
    ELSE LET duration == style.animation_duration IN
         IF RLt(RSub(current_time, subtitle.start), duration)
         THEN RDiv(RSub(current_time, subtitle.start), duration)
         ELSE IF RLt(RSub(subtitle.end, current_time), duration)
         THEN RDiv(RSub(subtitle.end, current_time), duration)
         ELSE One

\* the size of active_font in AddSubtitlesLiteNode._draw_subtitles: scaled
\* only during the intro and only when the scaled size is at least 10
lite_font_size(style, progress) ==
    IF style.animation_style = "zoom" /\ RLt(progress, One)
    THEN LET scaled_size == IntOf(Rat(style.font_size * progress[1], progress[2]))
         IN IF scaled_size >= LiteMinFontSize THEN scaled_size ELSE style.font_size
    ELSE style.font_size

\* AddSubtitlesLiteNode._draw_text_stroke: the colour is passed as it is
lite_draw_text_stroke(x, y, size, width, color, alpha) ==
    LET around == SelectSeq(Offsets(width), NotOrigin)
    IN [i \in 1..Len(around) |->
           Draw(x + around[i].dx, y + around[i].dy, color, size)]

\* the body of the loop of AddSubtitlesLiteNode._draw_subtitles for one
\* caption: progress, active_font, position (measured with active_font),
\* alpha, stroke, fill
lite_draw_subtitle(subtitle, style, current_time, text, frame_width, frame_height) ==
    LET progress == lite_calculate_animation_progress(subtitle, current_time, style)
        size == lite_font_size(style, progress)
        pos == lite_calculate_position(text.width, text.height, style,
                                       frame_width, frame_height, progress)
        alpha == lite_calculate_alpha(subtitle, current_time, style)
        stroke == IF style.stroke_width > 0
                  THEN lite_draw_text_stroke(pos.x, pos.y, size, style.stroke_width,
                                             style.stroke_color, alpha)
                  ELSE <<>>
    IN [progress |-> progress, alpha |-> alpha, x |-> pos.x, y |-> pos.y,
        font_size |-> size, measure_size |-> size,
        draws |-> Append(stroke, Draw(pos.x, pos.y, style.font_color, size))]

\* what _process_lite_mode of the backend node draws for one caption on one
\* frame: the stroke loop runs over every offset, the origin included
backend_draw_caption(style, text, frame_width, frame_height) ==
    LET pos == backend_draw_position(text.width, style, frame_width, frame_height)
        around == Offsets(style.stroke_width)
        stroke == IF style.stroke_width > 0
                  THEN [i \in 1..Len(around) |->
                           Draw(pos.x + around[i].dx, pos.y + around[i].dy,
                                style.stroke_color, style.font_size)]
                  ELSE <<>>
    IN [x |-> pos.x, y |-> pos.y, font_size |-> style.font_size,
        draws |-> Append(stroke, Draw(pos.x, pos.y, style.font_color, style.font_size))]

-----------------------------------------------------------------------------
(* AddSubtitlesBackendNode._process_lite_mode: which input frame each output *)
(* frame is, and the caption drawn on it (0: none).                          *)

\* math.floor(seconds * video_fps)
FrameNo(seconds, video_fps) == (seconds[1] * video_fps) \div seconds[2]

\* the frames j of range(from, to) with j < frame_count, each with caption i
FramesOf(from, to, frame_count, i) ==
    LET stop == IF to < frame_count THEN to ELSE frame_count
    IN [k \in 1..(IF stop > from THEN stop - from ELSE 0) |->
           [src |-> from + k - 1, caption |-> i]]

\* the loop over the alignment: frames without text from last_frame_no to the
\* start of unit i, frames with text from its start to its end, then
\* last_frame_no = end_frame_no
RECURSIVE lite_mode_loop(_, _, _, _, _, _)
lite_mode_loop(align, i, video_fps, frame_count, last_frame_no, pil_images_with_text) ==
    IF i > Len(align) THEN pil_images_with_text
    ELSE LET start_frame_no == FrameNo(align[i].start, video_fps)
             end_frame_no == FrameNo(align[i].end, video_fps)
         IN lite_mode_loop(align, i + 1, video_fps, frame_count, end_frame_no,
                pil_images_with_text
                    \o FramesOf(last_frame_no, start_frame_no, frame_count, 0)
                    \o FramesOf(start_frame_no, end_frame_no, frame_count, i))

\* the frames _process_lite_mode returns for frame_count input frames
_process_lite_mode(frame_count, align, video_fps) ==
    IF Len(align) = 0
    THEN FramesOf(0, frame_count, frame_count, 0)
    ELSE LET looped == lite_mode_loop(align, 1, video_fps, frame_count, 0, <<>>)
         IN looped \o FramesOf(Len(looped), frame_count, frame_count, 0)

-----------------------------------------------------------------------------
(* Direct calls of the animation, layout and filter functions: one call   *)
(* with arguments drawn from bounded sets, evaluated at an instant and at *)
(* the instant one step later.                                            *)

render_vars == <<inputs, pc, cap, out, temp, cap_pos, frame, frame_idx, written,
                 tool_calls, proc, output_file, result, error, log>>

\* no render() is running
Idle ==
    /\ renderer = "pillow" /\ video_exists = FALSE /\ alignment = <<>>
    /\ style_config = NoStyle /\ fps = 1 /\ nframes = 0 /\ output_path = "out.mp4"
    /\ pc = "idle" /\ cap = "none" /\ out = "none" /\ temp = "none"
    /\ cap_pos = 0 /\ frame = NoFrame /\ frame_idx = 0 /\ written = <<>>
    /\ tool_calls = 0 /\ proc = NoProc /\ output_file = "none"
    /\ result = NoResult /\ error = NoError /\ log = <<>>

\* last instant of the calls, in eighths of a second
MaxTick == 20
Instant(k) == Rat(k, 8)
Dt == Instant(1)
Instants == {Instant(k) : k \in 0..MaxTick}

\* captions of the calls: zero-duration, shorter than a duration, between one
\* and two durations, two durations and longer
CallUnits == {Unit(s, e) : s \in {Rat(0, 1), Rat(1, 2)}, e \in {Rat(1, 2), Rat(1, 1), Rat(2, 1)}}

TimedCalls(f) ==
    {[fn |-> f, subtitle |-> u, current_time |-> t, style |-> st] :
        u \in CallUnits, t \in Instants, st \in Styles}

\* the values of a function at the instant of the call and one instant later
Returned(a, b) == [returned |-> TRUE, at |-> a, next |-> b]
\* the value of a function of no instant
Value(v) == [returned |-> TRUE, value |-> v]

Later(c) == RAdd(c.current_time, Dt)

CallAlpha ==
    /\ call.fn = "_calculate_alpha" /\ ret = NoRet
    /\ ret' = Returned(_calculate_alpha(call.subtitle, call.current_time, call.style),
                       _calculate_alpha(call.subtitle, Later(call), call.style))
    /\ UNCHANGED <<render_vars, call>>

CallProgress ==
    /\ call.fn = "_calculate_animation_progress" /\ ret = NoRet
    /\ ret' = Returned(
          _calculate_animation_progress(call.subtitle, call.current_time, call.style),
          _calculate_animation_progress(call.subtitle, Later(call), call.style))
    /\ UNCHANGED <<render_vars, call>>

\* the style dict the nodes build, with the fields the layout and the
\* filtergraph read
Presets == {"bottom_center", "top_center", "center", "custom"}
FullStyle(a, d, preset, size, width) ==
    [present |-> TRUE, animation_style |-> a, animation_duration |-> d,
     position_preset |-> preset, x_position |-> 30, y_position |-> 100,
     font_size |-> size, font_path |-> <<"d", "\\", "f">>, font_color |-> "white",
     stroke_width |-> width, stroke_color |-> "black", shadow |-> FALSE]

\* font sizes of the calls: the node's minimum, the test's and the default
FontSizes == {10, 80, 100}
LayoutStyles ==
    {FullStyle(a, d, preset, 80, 0) :
        a \in AnimationStyles, d \in Durations, preset \in Presets}
ZoomStyles ==
    {FullStyle(a, d, "bottom_center", size, 0) :
        a \in AnimationStyles, d \in Durations, size \in FontSizes}

\* frame and measured text sizes of the calls: even and odd margins
Frame == [width |-> 320, height |-> 240]
TextSizes == {[width |-> 100, height |-> 20], [width |-> 101, height |-> 21]}

\* _draw_subtitles is handed active captions only: start <= current_time <= end
DrawCalls(f, styles) ==
    {c \in {[fn |-> f, subtitle |-> u, current_time |-> t, style |-> st, text |-> m] :
               u \in CallUnits, t \in Instants, st \in styles, m \in TextSizes} :
        RLe(c.subtitle.start, c.current_time) /\ RLe(c.current_time, c.subtitle.end)}

\* PillowRenderer._draw_subtitles: progress, then _calculate_position
PillowPositionAt(c, t) ==
    pillow_calculate_position(c.text.width, c.text.height, c.style,
        Frame.width, Frame.height,
        _calculate_animation_progress(c.subtitle, t, c.style))

CallPillowPosition ==
    /\ call.fn = "PillowRenderer._calculate_position" /\ ret = NoRet
    /\ ret' = Returned(PillowPositionAt(call, call.current_time),
                       PillowPositionAt(call, Later(call)))
    /\ UNCHANGED <<render_vars, call>>

\* AddSubtitlesLiteNode._draw_subtitles: progress, then _calculate_position
LitePositionAt(c, t) ==
    lite_calculate_position(c.text.width, c.text.height, c.style,
        Frame.width, Frame.height,
        _calculate_animation_progress(c.subtitle, t, c.style))

CallLitePosition ==
    /\ call.fn = "AddSubtitlesLiteNode._calculate_position" /\ ret = NoRet
    /\ ret' = Returned(LitePositionAt(call, call.current_time),
                       LitePositionAt(call, Later(call)))
    /\ UNCHANGED <<render_vars, call>>

\* PillowRenderer._draw_subtitles: progress, then the size of current_font
FontSizeAt(c, t) ==
    pillow_font_size(c.style, _calculate_animation_progress(c.subtitle, t, c.style))

CallFontSize ==
    /\ call.fn = "PillowRenderer.current_font" /\ ret = NoRet
    /\ ret' = Returned(FontSizeAt(call, call.current_time), FontSizeAt(call, Later(call)))
    /\ UNCHANGED <<render_vars, call>>

StaticCalls(f) ==
    {[fn |-> f, style |-> st, text |-> m] : st \in LayoutStyles, m \in TextSizes}

CallBackendPosition ==
    /\ call.fn = "AddSubtitlesBackendNode._calculate_position" /\ ret = NoRet
    /\ ret' = Value(backend_draw_position(call.text.width, call.style,
                                          Frame.width, Frame.height))
    /\ UNCHANGED <<render_vars, call>>

CallFFmpegPosition ==
    /\ call.fn = "FFmpegRenderer._calculate_position" /\ ret = NoRet
    /\ ret' = Value(ffmpeg_calculate_position(call.style))
    /\ UNCHANGED <<render_vars, call>>

\* caption texts over colon, single quote, backslash and an ordinary character
MaxText == 3
Alphabet == {":", "'", "\\", "a"}
Texts == SeqsUpTo(Alphabet, MaxText)

CallEscape ==
    /\ call.fn = "_escape_text" /\ ret = NoRet
    /\ ret' = Value(_escape_text(call.text))
    /\ UNCHANGED <<render_vars, call>>

\* caption units of the filtergraph calls: plain text, text with a comma,
\* text with a colon
Word(s, e, v) == [start |-> s, end |-> e, value |-> v]
Words ==
    {Word(w[1], w[2], v) :
        w \in {<<Rat(0, 1), Rat(1, 2)>>, <<Rat(1, 2), Rat(2, 1)>>},
        v \in {<<"a">>, <<"a", ",", "b">>, <<"a", ":">>}}
GraphStyles ==
    {FullStyle(a, Rat(1, 2), preset, 80, width) :
        a \in AnimationStyles, preset \in {"bottom_center", "custom"}, width \in {0, 3}}
\* render() hands _build_filtergraph a validated, non-empty alignment
GraphCalls ==
    {[fn |-> "_build_filtergraph", alignment |-> al, style |-> st] :
        al \in SeqsUpTo(Words, MaxLen) \ {<<>>}, st \in GraphStyles}

CallFiltergraph ==
    /\ call.fn = "_build_filtergraph" /\ ret = NoRet
    /\ ret' = Value(_build_filtergraph(call.alignment, call.style))
    /\ UNCHANGED <<render_vars, call>>

\* widest stroke of the draw calls
MaxStroke == 2
DrawStyles ==
    {FullStyle(a, d, "bottom_center", 80, width) :
        a \in AnimationStyles, d \in Durations, width \in 0..MaxStroke}

CallPillowDraw ==
    /\ call.fn = "PillowRenderer._draw_subtitles" /\ ret = NoRet
    /\ ret' = Value(pillow_draw_subtitle(call.subtitle, call.style, call.current_time,
                                         call.text, Frame.width, Frame.height))
    /\ UNCHANGED <<render_vars, call>>

CallLiteDraw ==
    /\ call.fn = "AddSubtitlesLiteNode._draw_subtitles" /\ ret = NoRet
    /\ ret' = Value(lite_draw_subtitle(call.subtitle, call.style, call.current_time,
                                       call.text, Frame.width, Frame.height))
    /\ UNCHANGED <<render_vars, call>>

BackendDrawCalls ==
    {[fn |-> "AddSubtitlesBackendNode._process_lite_mode draw", style |-> st, text |-> m] :
        st \in DrawStyles, m \in TextSizes}

CallBackendDraw ==
    /\ call.fn = "AddSubtitlesBackendNode._process_lite_mode draw" /\ ret = NoRet
    /\ ret' = Value(backend_draw_caption(call.style, call.text, Frame.width, Frame.height))
    /\ UNCHANGED <<render_vars, call>>

ActiveCalls ==
    {[fn |-> "AddSubtitlesLiteNode._get_active_subtitles", units |-> al,
      current_time |-> t] : al \in SeqsUpTo(Units, MaxLen), t \in Instants}

CallLiteActive ==
    /\ call.fn = "AddSubtitlesLiteNode._get_active_subtitles" /\ ret = NoRet
    /\ ret' = Value(lite_get_active_subtitles(call.units, call.current_time))
    /\ UNCHANGED <<render_vars, call>>

\* tensor2pil(images) has at least one frame: pil_images[0].size is read
LiteModeCalls ==
    {[fn |-> "_process_lite_mode", frame_count |-> n, units |-> al, video_fps |-> f] :
        n \in 1..MaxFrames, al \in SeqsUpTo(Units, MaxLen), f \in {1, 2}}

CallLiteMode ==
    /\ call.fn = "_process_lite_mode" /\ ret = NoRet
    /\ ret' = Value(_process_lite_mode(call.frame_count, call.units, call.video_fps))
    /\ UNCHANGED <<render_vars, call>>

Calls ==
    TimedCalls("_calculate_alpha") \cup TimedCalls("_calculate_animation_progress")
    \cup DrawCalls("PillowRenderer._calculate_position", LayoutStyles)
    \cup DrawCalls("AddSubtitlesLiteNode._calculate_position", LayoutStyles)
    \cup DrawCalls("PillowRenderer.current_font", ZoomStyles)
    \cup StaticCalls("AddSubtitlesBackendNode._calculate_position")
    \cup StaticCalls("FFmpegRenderer._calculate_position")
    \cup {[fn |-> "_escape_text", text |-> x] : x \in Texts}
    \cup GraphCalls
    \cup DrawCalls("PillowRenderer._draw_subtitles", DrawStyles)
    \cup DrawCalls("AddSubtitlesLiteNode._draw_subtitles", DrawStyles)
    \cup BackendDrawCalls
    \cup ActiveCalls
    \cup LiteModeCalls

CallInit == Idle /\ call \in Calls /\ ret = NoRet

CallNext ==
    \/ CallAlpha
    \/ CallProgress
    \/ CallPillowPosition
    \/ CallLitePosition
    \/ CallFontSize
    \/ CallBackendPosition
    \/ CallFFmpegPosition
    \/ CallEscape
    \/ CallFiltergraph
    \/ CallPillowDraw
    \/ CallLiteDraw
    \/ CallBackendDraw
    \/ CallLiteActive
    \/ CallLiteMode

CallSpec == CallInit /\ [][CallNext]_vars

-----------------------------------------------------------------------------
(* Properties *)

Valid == video_exists /\ alignment # <<>> /\ style_config.present

IsActive(u, t) == RLe(u.start, t) /\ RLe(t, u.end)
ActiveIdx(t) == {j \in 1..Len(alignment) : IsActive(alignment[j], t)}

\* C1: on every written frame, with frame time t, the drawn captions are
\* exactly the units of alignment with start <= t <= end (both inclusive), in
\* alignment order: the i-th drawn caption is the unit at the i-th active
\* index, and nothing else is drawn.
C1_ActiveExactInOrder ==
    \A k \in 1..Len(written) :
        LET f == written[k]
            A == ActiveIdx(f.time)
        IN /\ Len(f.drawn) = Cardinality(A)
           /\ \A j \in A : f.drawn[Cardinality({i \in A : i <= j})].unit = alignment[j]

\* an unsorted alignment whose zero-duration first unit and overlapping second
\* unit are both drawn on one frame, and a frame on which a unit is left out
C1_Witness ==
    /\ Len(alignment) = 2
    /\ RLt(alignment[2].start, alignment[1].start)
    /\ alignment[1].start = alignment[1].end
    /\ \E k \in 1..Len(written) : Len(written[k].drawn) = 2
    /\ \E k \in 1..Len(written) : Len(written[k].drawn) = 1

\* C2: validate_inputs raises exactly when the video is missing, the alignment
\* is empty or the style is absent; render() validates first, so a validation
\* failure leaves no decode handle, no writer, no temporary file, no external
\* tool run, no frame and no result, and none of these exists before the
\* validation has passed.
C2_ValidationFirst ==
    /\ pc # "start" => ((error.stage = "validate") <=> ~Valid)
    /\ error.stage = "validate" =>
          /\ pc = "failed"
          /\ cap = "none" /\ out = "none" /\ temp = "none"
          /\ tool_calls = 0 /\ proc = NoProc
          /\ written = <<>> /\ output_file = "none" /\ result = NoResult
    /\ (cap # "none" \/ out # "none" \/ temp # "none" \/ tool_calls > 0) => Valid
    /\ ~video_exists /\ pc # "start" => error.type = "FileNotFoundError"

\* the last of the three checks fails: video there, captions there, no style
C2_Witness ==
    /\ pc = "failed" /\ error.stage = "validate"
    /\ video_exists /\ alignment # <<>> /\ ~style_config.present

\* C3: a result exists exactly when render() has completed, it is produced by
\* the last step (nothing runs after it), and it carries status success, the
\* requested output path, the length of the alignment and the name of the
\* renderer that ran; the Pillow result also carries frames_processed.
C3_ResultFields ==
    /\ (result # NoResult) <=> (pc = "done")
    /\ pc = "done" =>
          /\ ~ENABLED Next
          /\ result.status = "success"
          /\ result.output_path = output_path
          /\ result.subtitle_count = Len(alignment)
          /\ result.renderer = renderer
          /\ ("frames_processed" \in DOMAIN result) <=> (renderer = "pillow")
          /\ renderer = "pillow" => result.frames_processed = frame_idx

\* a completed Pillow run whose caption count differs from its frame count
C3_Witness ==
    /\ pc = "done" /\ renderer = "pillow"
    /\ Len(alignment) = 2 /\ result.frames_processed = 3

\* C4: the k-th frame written is the k-th frame decoded, composited at time
\* k / fps (k from 0); once the loop has ended exactly nframes frames have been
\* written, and the result reports frames_processed = nframes.
C4_StreamingFrames ==
    /\ \A k \in 1..Len(written) :
          /\ written[k].src = k - 1
          /\ written[k].time = Rat(k - 1, fps)
    /\ renderer = "pillow" /\ cap = "released" =>
          Len(written) = nframes /\ frame_idx = nframes
    /\ renderer = "pillow" /\ pc = "done" => result.frames_processed = nframes

\* a completed run over a source of at least three frames
C4_Witness ==
    /\ renderer = "pillow" /\ pc = "done"
    /\ nframes >= 3 /\ Len(written) = nframes

\* C5: a failure of the audio remux never makes render() fail: after the
\* merge step the run goes on to Done, and a non-zero exit of the tool leaves
\* the silent copy at the output path.
C5_RemuxNeverFails ==
    /\ error.stage # "merge"
    /\ renderer = "pillow" /\ pc = "done" /\ proc.rc # 0 => output_file = "silent_copy"

\* C6: when render() of the streaming renderer has returned or raised, the
\* decode handle and the encode handle are released and the temporary file
\* is deleted.
C6_ReleasedOnEveryExit ==
    renderer = "pillow" /\ Terminated =>
        cap # "open" /\ out # "open" /\ temp # "exists"

\* C7: in the filtergraph renderer a non-zero exit of the tool makes render()
\* raise RuntimeError carrying the tool's stderr, and a result exists only
\* after an exit with zero.
C7_ToolFailureRaises ==
    renderer = "ffmpeg" =>
        /\ proc # NoProc /\ proc.rc # 0 =>
              /\ pc = "failed"
              /\ error.type = "RuntimeError"
              /\ error.detail = proc.stderr
              /\ result = NoResult
        /\ result # NoResult => proc # NoProc /\ proc.rc = 0

\* the tool exited non-zero and its diagnostic is in the raised error
C7_Witness ==
    /\ renderer = "ffmpeg" /\ pc = "failed"
    /\ proc.rc = 1 /\ error.detail = "No such filter"

\* C8 as stated: a render with an empty alignment (video and style in order)
\* ends with a success result, subtitle_count 0 and no caption drawn.
C8_EmptyAlignmentSucceeds ==
    alignment = <<>> /\ video_exists /\ style_config.present /\ Terminated =>
        /\ result # NoResult
        /\ result.status = "success"
        /\ result.subtitle_count = 0
        /\ \A k \in 1..Len(written) : written[k].drawn = <<>>

\* C8 as amended: a render with an empty alignment is rejected by the
\* validation: it raises (ValueError when the video exists), returns no
\* result, opens nothing, writes no frame and no output.
C8_EmptyAlignmentRejected ==
    alignment = <<>> /\ pc # "start" =>
        /\ pc = "failed" /\ error.stage = "validate"
        /\ video_exists => error.type = "ValueError: Alignment data is empty"
        /\ result = NoResult /\ written = <<>> /\ output_file = "none"
        /\ cap = "none" /\ tool_calls = 0

\* an otherwise valid request with no caption has been rejected
C8_Witness ==
    /\ alignment = <<>> /\ video_exists /\ style_config.present
    /\ pc = "failed" /\ error.type = "ValueError: Alignment data is empty"

TestScenario == renderer = "pillow" /\ alignment = <<TestUnit>> /\ fps = TestFps

\* C9 as stated: with [{0.5, 2.0}] at 24 fps the caption is on exactly the
\* frames 12..47 (index in [12, 48)).
C9_HalfOpenRange ==
    TestScenario =>
        \A k \in 1..Len(written) :
            (written[k].drawn # <<>>) <=> (12 <= k - 1 /\ k - 1 < 48)

\* C9 as amended: the caption is on exactly the frames 12..48; frame 48
\* (t = 2.0 = end) carries it, frames 11 and 49 do not.
C9_ClosedRange ==
    TestScenario =>
        \A k \in 1..Len(written) :
            (written[k].drawn # <<>>) <=> (12 <= k - 1 /\ k - 1 <= 48)

\* frames 11, 12, 48 and 49 have been written
C9_Witness ==
    /\ TestScenario /\ Len(written) >= 50
    /\ written[12].drawn = <<>> /\ written[13].drawn # <<>>
    /\ written[49].drawn # <<>> /\ written[50].drawn = <<>>

IsFade == style_config.animation_style = "fade"
Dur == style_config.animation_duration
\* every caption drawn so far, with the time of its frame
AllDraws ==
    UNION {{[t |-> written[k].time, unit |-> written[k].drawn[i].unit,
             alpha |-> written[k].drawn[i].alpha] : i \in 1..Len(written[k].drawn)} :
           k \in 1..Len(written)}

FadeIn(d) == RLt(RSub(d.t, d.unit.start), Dur)
FadeOut(d) == RLt(RSub(d.unit.end, d.t), Dur)

SpansDurations(u, n) == RLe(Rat(n * Dur[1], Dur[2]), RSub(u.end, u.start))

-----------------------------------------------------------------------------
(* Properties of the direct calls *)

RAbs(a) == IF a[1] < 0 THEN <<-a[1], a[2]>> ELSE a
CallDur == call.style.animation_duration
\* end - start >= n * duration, for the caption of the call
CallSpans(n) ==
    RLe(Rat(n * CallDur[1], CallDur[2]), RSub(call.subtitle.end, call.subtitle.start))
InWindow(t) == RLe(call.subtitle.start, t) /\ RLe(t, call.subtitle.end)
\* the call is one of fn, has returned, and both instants lie in the window
Adjacent(fn) ==
    /\ call.fn = fn /\ ret # NoRet
    /\ InWindow(call.current_time) /\ InWindow(Later(call))
FadeCall == call.fn = "_calculate_alpha" /\ ret # NoRet /\ call.style.animation_style = "fade"
\* t is at least a duration after start and a duration before end
AwayFromEnds(t) ==
    /\ RLe(CallDur, RSub(t, call.subtitle.start))
    /\ RLe(CallDur, RSub(call.subtitle.end, t))
StepBound == RDiv(Dt, CallDur)

\* C11 as stated: under fade, for every caption and duration, alpha at two
\* adjacent instants of the window differs by at most d / duration, and alpha
\* is 1 away from both ends.
C11_ContinuousAsStated ==
    FadeCall =>
        /\ Adjacent("_calculate_alpha") => RLe(RAbs(RSub(ret.next, ret.at)), StepBound)
        /\ AwayFromEnds(call.current_time) => ret.at = One

\* C11 as amended: the step bound holds when end - start >= 2*duration or
\* end - start < duration; for duration <= end - start < 2*duration alpha
\* drops at t = start + duration from the fade-in ramp (just below 1) to
\* (end - start - duration)/duration.  Alpha is 1 away from both ends for
\* every caption.
C11_Continuous ==
    FadeCall =>
        /\ Adjacent("_calculate_alpha") /\ (CallSpans(2) \/ ~CallSpans(1)) =>
              RLe(RAbs(RSub(ret.next, ret.at)), StepBound)
        /\ AwayFromEnds(call.current_time) => ret.at = One
        /\ /\ Adjacent("_calculate_alpha") /\ CallSpans(1) /\ ~CallSpans(2)
           /\ Later(call) = RAdd(call.subtitle.start, CallDur)
           => /\ ret.at = RSub(One, StepBound)
              /\ ret.next = RDiv(RSub(RSub(call.subtitle.end, call.subtitle.start), CallDur),
                                 CallDur)

\* a caption of at least two durations inside its fade-out: alpha falls from
\* one instant to the next, by no more than the step bound
C11_Witness ==
    /\ FadeCall /\ Adjacent("_calculate_alpha") /\ CallSpans(2)
    /\ RLt(ret.next, ret.at) /\ RLt(Zero, ret.next)

Clamp01(a) == IF RLt(a, Zero) THEN Zero ELSE IF RLt(One, a) THEN One ELSE a

Depth(graph, k) ==
    Cardinality({j \in 1..(k - 1) : graph[j] = "("})
        - Cardinality({j \in 1..(k - 1) : graph[j] = ")"})
BackslashesBefore(graph, k) ==
    Cardinality({r \in 1..(k - 1) : \A j \in (k - r)..(k - 1) : graph[j] = "\\"})
ChainCommas(graph) ==
    {k \in 1..Len(graph) :
        /\ graph[k] = ","
        /\ Depth(graph, k) = 0
        /\ BackslashesBefore(graph, k) % 2 = 0}
\* the position before the i-th filter of the graph, and the position after it
FilterBound(graph, i) ==
    IF i = 0 THEN 0
    ELSE IF i = Cardinality(ChainCommas(graph)) + 1 THEN Len(graph) + 1
    ELSE CHOOSE k \in ChainCommas(graph) :
             Cardinality({j \in ChainCommas(graph) : j < k}) = i - 1
\* the filters of a filtergraph: the pieces between the chaining commas
SplitFilters(graph) ==
    [i \in 1..(Cardinality(ChainCommas(graph)) + 1) |->
        SubSeq(graph, FilterBound(graph, i - 1) + 1, FilterBound(graph, i) - 1)]

\* f ends with e
EndsWith(f, e) ==
    Len(f) >= Len(e) /\ SubSeq(f, Len(f) - Len(e) + 1, Len(f)) = e
\* f holds e from position k on
HoldsAt(f, k, e) ==
    k + Len(e) - 1 <= Len(f) /\ SubSeq(f, k, k + Len(e) - 1) = e

\* C16: for every non-empty alignment and every caption text the filtergraph
\* is one drawtext filter per caption unit, in alignment order, chained with
\* commas: its i-th filter starts with drawtext, carries the escaped text of
\* the i-th unit, and ends with the one enable=between(t,start,end) of that
\* unit's start and end.
C16_OneDrawtextPerUnit ==
    call.fn = "_build_filtergraph" /\ ret # NoRet =>
        LET filters == SplitFilters(ret.value) IN
        /\ Len(filters) = Len(call.alignment)
        /\ \A i \in 1..Len(call.alignment) :
              LET f == filters[i]
                  word == call.alignment[i]
              IN /\ f # <<>> /\ f[1] = "drawtext=fontfile="
                 /\ \E k \in 1..Len(f) :
                       f[k] = "text=" /\ HoldsAt(f, k + 1, _escape_text(word.value))
                 /\ EndsWith(f, EnableBetween(word.start, word.end))
                 /\ Cardinality({k \in 1..Len(f) : f[k] = "enable=between"}) = 1

\* the text an escaped text stands for: a backslash escapes the character
\* after it
RECURSIVE Unescape(_)
Unescape(text) ==
    IF text = <<>> THEN <<>>
    ELSE IF Head(text) = "\\" /\ Len(text) >= 2
    THEN <<text[2]>> \o Unescape(Tail(Tail(text)))
    ELSE <<Head(text)>> \o Unescape(Tail(text))

\* every colon, single quote and backslash of the text is escaped by a
\* backslash that is not itself escaped
RECURSIVE AllEscaped(_)
AllEscaped(text) ==
    IF text = <<>> THEN TRUE
    ELSE IF Head(text) = "\\"
    THEN Len(text) >= 2 /\ AllEscaped(Tail(Tail(text)))
    ELSE Head(text) \notin {":", "'"} /\ AllEscaped(Tail(text))

\* C17: for every text over colon, single quote, backslash and ordinary
\* characters, _escape_text puts exactly one escaping backslash before each
\* colon, single quote and backslash: unescaping its output gives the text
\* back and the output holds no unescaped delimiter.
C17_EscapeRoundTrip ==
    call.fn = "_escape_text" /\ ret # NoRet =>
        /\ Unescape(ret.value) = call.text
        /\ AllEscaped(ret.value)
        /\ Len(ret.value) = Len(call.text)
              + Cardinality({k \in 1..Len(call.text) : call.text[k] \in {":", "'", "\\"}})

\* the base position as stated, in whole pixels (halves rounded down)
StatedPosition(c) ==
    LET st == c.style
        centred == (Frame.width - c.text.width) \div 2
    IN CASE st.position_preset = "bottom_center" ->
               [x |-> centred, y |-> Frame.height - st.y_position]
         [] st.position_preset = "top_center" ->
               [x |-> centred, y |-> st.y_position]
         [] st.position_preset = "center" ->
               [x |-> centred, y |-> (Frame.height - c.text.height) \div 2]
         [] OTHER ->
               [x |-> st.x_position, y |-> st.y_position]

\* the base position as stated, as expressions of the filter engine over the
\* frame size (w, h) and the text size (text_w, text_h)
StatedExpression(c) ==
    LET st == c.style
        centred == <<"(", "w-text_w", ")", "/2">>
    IN CASE st.position_preset = "bottom_center" ->
               [x |-> centred, y |-> <<"h-" \o IntStr(st.y_position)>>]
         [] st.position_preset = "top_center" ->
               [x |-> centred, y |-> <<IntStr(st.y_position)>>]
         [] st.position_preset = "center" ->
               [x |-> centred, y |-> <<"(", "h-text_h", ")", "/2">>]
         [] OTHER ->
               [x |-> <<IntStr(st.x_position)>>, y |-> <<IntStr(st.y_position)>>]

FramePositionCall ==
    /\ call.fn \in {"PillowRenderer._calculate_position",
                    "AddSubtitlesLiteNode._calculate_position"}
    /\ ret # NoRet
Sliding == call.style.animation_style \in {"slide_up", "slide_down"}

\* C18: every position implementation resolves the preset to the same base
\* (x, y): bottom_center ((frameW - textW)/2, frameH - y_position), top_center
\* ((frameW - textW)/2, y_position), center ((frameW - textW)/2,
\* (frameH - textH)/2), custom (x_position, y_position).
C18_SameBasePosition ==
    /\ FramePositionCall /\ ~Sliding => ret.at = StatedPosition(call)
    /\ call.fn = "AddSubtitlesBackendNode._calculate_position" /\ ret # NoRet =>
          ret.value = StatedPosition(call)
    /\ call.fn = "FFmpegRenderer._calculate_position" /\ ret # NoRet =>
          ret.value = StatedExpression(call)

\* progress as stated: clamp((t - start)/duration, 0, 1)
StatedProgress(t) == Clamp01(RDiv(RSub(t, call.subtitle.start), CallDur))
\* the slide offset as stated, 50 * (1 - progress), and truncated to whole pixels
StatedOffset(t) ==
    RSub(Rat(SlideDistance, 1),
         Rat(SlideDistance * StatedProgress(t)[1], StatedProgress(t)[2]))
\* what a position adds to the base y
OffsetOf(pos) == pos.y - StatedPosition(call).y

\* C19 as stated: the offset of a position is vertical and intro-only:
\* slide_up adds 50 * (1 - progress) to the base y, slide_down subtracts it,
\* the offset is 0 for t >= start + duration, its magnitude does not grow from
\* one instant to the next, none, fade and zoom leave y at the base, and x is
\* the base x whatever the kind and the progress.
C19_SlideOffsetAsStated ==
    FramePositionCall =>
        /\ call.style.animation_style = "slide_up" =>
              Rat(OffsetOf(ret.at), 1) = StatedOffset(call.current_time)
        /\ call.style.animation_style = "slide_down" =>
              Rat(-OffsetOf(ret.at), 1) = StatedOffset(call.current_time)
        /\ RLe(RAdd(call.subtitle.start, CallDur), call.current_time) =>
              OffsetOf(ret.at) = 0
        /\ Abs(OffsetOf(ret.next)) <= Abs(OffsetOf(ret.at))
        /\ ~Sliding => OffsetOf(ret.at) = 0 /\ OffsetOf(ret.next) = 0
        /\ ret.at.x = StatedPosition(call).x /\ ret.next.x = StatedPosition(call).x

\* C19 as amended: the offset is 50 * (1 - progress) truncated to a whole
\* number of pixels, int(50 * (1 - progress)): slide_up adds it to the base
\* y, slide_down subtracts it; the rest as stated.
C19_SlideOffset ==
    FramePositionCall =>
        /\ call.style.animation_style = "slide_up" =>
              OffsetOf(ret.at) = IntOf(StatedOffset(call.current_time))
        /\ call.style.animation_style = "slide_down" =>
              -OffsetOf(ret.at) = IntOf(StatedOffset(call.current_time))
        /\ RLe(RAdd(call.subtitle.start, CallDur), call.current_time) =>
              OffsetOf(ret.at) = 0
        /\ Abs(OffsetOf(ret.next)) <= Abs(OffsetOf(ret.at))
        /\ ~Sliding => OffsetOf(ret.at) = 0 /\ OffsetOf(ret.next) = 0
        /\ ret.at.x = StatedPosition(call).x /\ ret.next.x = StatedPosition(call).x

\* slide_down at a quarter of the intro: 37 pixels above the base (37.5
\* truncated), 25 pixels above it one instant later
C19_Witness ==
    /\ FramePositionCall /\ call.style.animation_style = "slide_down"
    /\ StatedProgress(call.current_time) = Rat(1, 4)
    /\ OffsetOf(ret.at) = -37 /\ OffsetOf(ret.next) = -25

\* C20: under zoom the streaming renderer draws with font size
\* int(baseSize * progress) floored at 10: never below 10, never above
\* baseSize, not smaller at the next instant, and baseSize for every
\* t >= start + duration; every other kind draws with baseSize.
C20_ZoomFontSize ==
    call.fn = "PillowRenderer.current_font" /\ ret # NoRet =>
        LET baseSize == call.style.font_size
            progress == StatedProgress(call.current_time)
        IN IF call.style.animation_style = "zoom"
           THEN /\ ret.at = Max(MinFontSize,
                                IntOf(Rat(baseSize * progress[1], progress[2])))
                /\ MinFontSize <= ret.at /\ ret.at <= baseSize
                /\ ret.at <= ret.next
                /\ RLe(RAdd(call.subtitle.start, CallDur), call.current_time) =>
                      ret.at = baseSize
           ELSE ret.at = baseSize /\ ret.next = baseSize

\* a zoom whose scaled size is below 10: the floor applies, and the size has
\* grown at the next instant
C20_Witness ==
    /\ call.fn = "PillowRenderer.current_font" /\ ret # NoRet
    /\ call.style.animation_style = "zoom"
    /\ call.style.font_size * StatedProgress(call.current_time)[1]
          < MinFontSize * StatedProgress(call.current_time)[2]
    /\ ret.at = MinFontSize /\ ret.next > ret.at

-----------------------------------------------------------------------------
(* Properties of the frame loop and of the outcome of render() *)

\* frames decoded so far that out.write has not received
Unwritten ==
    {k \in 0..(cap_pos - 1) : \A i \in 1..Len(written) : written[i].src # k}
\* the decoded frame the loop holds
Held == IF frame = NoFrame THEN {} ELSE {frame}

\* C13: at every point of the frame loop at most one decoded frame is held:
\* the frames decoded and not yet written are exactly the one frame the loop
\* holds, a frame is written before the next one is read (none is pending at
\* the head of the loop), and what has been decoded is never more than one
\* frame ahead of what has been written.
C13_OneFrameHeld ==
    renderer = "pillow" =>
        /\ Cardinality(Unwritten) <= 1
        /\ Unwritten = Held
        /\ pc = "loop" => Unwritten = {} /\ Len(written) = cap_pos
        /\ pc = "body" => Unwritten = {cap_pos - 1} /\ Len(written) = cap_pos - 1

\* the third frame is held in the loop body and the two before it are written
C13_Witness ==
    /\ renderer = "pillow" /\ pc = "body"
    /\ frame = 2 /\ Len(written) = 2

\* C14: a source from which no frame can be decoded (it cannot be opened or
\* decoded) makes render() of the streaming renderer raise: the run ends in
\* Failed and no success result exists.
C14_DecodingFailureRaises ==
    renderer = "pillow" /\ nframes = 0 =>
        /\ result = NoResult
        /\ Valid /\ Terminated => pc = "failed"

\* the animation kinds the filtergraph renderer renders as static text
DegradedStyles == {"slide_up", "slide_down", "zoom"}

\* C15: when the filtergraph renderer has rendered slide_up, slide_down or
\* zoom as static text, the degradation is reported: something was logged or
\* the result says so, so that what the run reports differs from what a run
\* with animation none reports.
C15_DegradationReported ==
    /\ renderer = "ffmpeg" /\ pc = "done"
    /\ style_config.animation_style \in DegradedStyles
    => \/ log # <<>>
       \/ result # FFmpegResult(output_path, alignment)

-----------------------------------------------------------------------------
(* Properties of the draw calls *)

DrawCall ==
    /\ call.fn \in {"PillowRenderer._draw_subtitles",
                    "AddSubtitlesLiteNode._draw_subtitles",
                    "AddSubtitlesBackendNode._process_lite_mode draw"}
    /\ ret # NoRet
\* the offsets of the outline: |dx| <= w, |dy| <= w, not the origin
Outline(w) == {o \in [dx : (-w)..w, dy : (-w)..w] : o.dx # 0 \/ o.dy # 0}

\* C21: in every rasterizing path a caption with stroke width w > 0 is drawn
\* in the stroke colour once at every offset (dx, dy) with |dx| <= w,
\* |dy| <= w other than the origin, (2w+1)^2 - 1 draws, and after all of them
\* once in the fill colour at (x, y); with w = 0 the fill is the only draw.
C21_StrokeThenFill ==
    DrawCall =>
        LET d == ret.value.draws
            w == call.style.stroke_width
            n == (2 * w + 1) * (2 * w + 1) - 1
        IN /\ Len(d) = n + 1
           /\ d[Len(d)] = Draw(ret.value.x, ret.value.y, call.style.font_color,
                               ret.value.font_size)
           /\ \A i \in 1..(Len(d) - 1) : d[i].fill = call.style.stroke_color
           /\ {[dx |-> d[i].x - ret.value.x, dy |-> d[i].y - ret.value.y] :
                  i \in 1..(Len(d) - 1)} = Outline(w)

GraphCall == call.fn = "_build_filtergraph" /\ ret # NoRet
\* the filtergraph of the call's alignment under the call's style with
\* animation kind none
StaticGraph ==
    _build_filtergraph(call.alignment, [call.style EXCEPT !.animation_style = "none"])
\* a filter with an animation term put before its enable term
WithTerm(filter, term) ==
    LET gate == Len(EnableBetween(Zero, Zero)) IN
    SubSeq(filter, 1, Len(filter) - gate) \o term \o <<":">>
        \o SubSeq(filter, Len(filter) - gate + 1, Len(filter))
\* number of alpha terms of a graph
AlphaTerms(graph) == Cardinality({k \in 1..Len(graph) : graph[k] = "alpha=if"})

PillowSame ==
    pillow_draw_subtitle(call.subtitle, call.style, call.current_time, call.text,
                         Frame.width, Frame.height)

\* C23: the Lite node draws with the logic of the Pillow renderer: for the
\* same alignment and time the same active captions, and for the same
\* caption, time, style and frame the same progress, alpha, position, font
\* size and measuring font, under zoom at every progress value.
C23_LiteSameAsPillow ==
    /\ call.fn = "AddSubtitlesLiteNode._get_active_subtitles" /\ ret # NoRet =>
          ret.value = _get_active_subtitles(call.units, call.current_time)
    /\ call.fn = "AddSubtitlesLiteNode._draw_subtitles" /\ ret # NoRet =>
          /\ ret.value.progress = PillowSame.progress
          /\ ret.value.alpha = PillowSame.alpha
          /\ ret.value.x = PillowSame.x /\ ret.value.y = PillowSame.y
          /\ ret.value.font_size = PillowSame.font_size
          /\ ret.value.measure_size = PillowSame.measure_size

\* C24: for any alignment, also unsorted, overlapping or reaching past the
\* last frame, the lite mode of the backend node returns as many frames as it
\* received, and output frame j is input frame j: none is duplicated, dropped
\* or shifted.
C24_FramesPreserved ==
    call.fn = "_process_lite_mode" /\ ret # NoRet =>
        /\ Len(ret.value) = call.frame_count
        /\ \A j \in 1..Len(ret.value) : ret.value[j].src = j - 1

FrameDrawCall ==
    /\ call.fn \in {"PillowRenderer._draw_subtitles", "AddSubtitlesLiteNode._draw_subtitles"}
    /\ ret # NoRet
\* the draw calls of the same renderer for the call's caption, time and
\* frame under the call's style with animation kind none
DrawsOfNone ==
    LET none == [call.style EXCEPT !.animation_style = "none"] IN
    IF call.fn = "PillowRenderer._draw_subtitles"
    THEN pillow_draw_subtitle(call.subtitle, none, call.current_time, call.text,
                              Frame.width, Frame.height).draws
    ELSE lite_draw_subtitle(call.subtitle, none, call.current_time, call.text,
                            Frame.width, Frame.height).draws

====
